---- MODULE Spec2Model ----
(***************************************************************************)
(* Model of boards/shields/nice_view_custom/widgets/util.c: the manual     *)
(* pixel-by-pixel rotation of the packed 1-bit canvas buffer               *)
(* (rotate_canvas) and the battery glyph drawing (draw_battery).           *)
(*                                                                         *)
(* Buffers are flat byte sequences; the byte at C index i is element i + 1 *)
(* of the sequence (ByteAt). All bit arithmetic is the source's: byte       *)
(* row*stride + col/8, bit 7 - col%8.                                      *)
(***************************************************************************)
EXTENDS Integers, FiniteSets, Sequences, TLC

VARIABLES
    CANVAS_SIZE,  \* side length N of the canvas (compile-time macro)
    align,        \* stride alignment of the draw-buffer layer (1 or 4 bytes)
    inverted,     \* CONFIG_NICE_VIEW_WIDGET_INVERTED
    cbuf,         \* the canvas buffer, stride*N bytes
    src_tmp,      \* static scratch buffer (the stride*N bytes the code uses)
    pc,           \* position in draw_battery / rotate_canvas
    x, y,         \* loop variables of rotate_canvas
    loc,          \* locals of the last loop iteration
    battery,      \* state->battery
    charging,     \* state->charging
    rect,         \* local lv_area_t rect of draw_battery
    remaining,    \* rotate_canvas calls the caller will still make
    calls,        \* history: rotate_canvas calls entered so far
    orig,         \* history: cbuf before the first rotate_canvas call
    atCall,       \* history: cbuf when the current/last call was entered
    inval,        \* history: lv_obj_invalidate calls issued by the current call
    oob           \* history: an access outside a buffer happened

vars == <<CANVAS_SIZE, align, inverted, cbuf, src_tmp, pc, x, y, loc, battery,
          charging, rect, remaining, calls, orig, atCall, inval, oob>>

----------------------------------------------------------------------------
(* Bounds of the model *)

\* rotate_canvas calls made in succession on one buffer
MaxCalls == 4

\* foreground pixels of a sparse input bitmap
MaxSet == 3

(* Program constants *)

\* the canvas is 68x68
NICE_VIEW_CANVAS_SIZE == 68

(* Inputs of the model *)

\* scaled-down canvases for the exhaustive runs of the rotator; 9 has rows of
\* more than one byte
Sizes == {3, 4, 9}

\* lv_draw_buf_width_to_stride rounds the row up to 1 or to 4 bytes
Aligns == {1, 4}

----------------------------------------------------------------------------
(* Bit and byte arithmetic *)

\* buf[i] of the C array
ByteAt(buf, i) == buf[i + 1]

InBuf(buf, i) == i >= 0 /\ i < Len(buf)

Bit(b, k) == (b \div (2 ^ k)) % 2

\* seeded fault: (1 << k) alone, as `=` in place of `|=` would store
OrBitAssignOnly(b, k) == 2 ^ k

\* b | (1 << k) on a uint8_t
OrBit(b, k) == IF Bit(b, k) = 1 THEN b ELSE b + 2 ^ k

Stride(n, a) == (((n + 7) \div 8 + a - 1) \div a) * a

stride == Stride(CANVAS_SIZE, align)

BufLen == stride * CANVAS_SIZE

\* seeded fault: the scratch array sized like dst_buf, for packed pixels
SrcTmpCapPacked == ((CANVAS_SIZE * CANVAS_SIZE) \div 8) + 100

\* static uint8_t src_tmp[CANVAS_SIZE * CANVAS_SIZE]
SrcTmpCap == CANVAS_SIZE * CANVAS_SIZE

Coords == (0 .. CANVAS_SIZE - 1) \X (0 .. CANVAS_SIZE - 1)

----------------------------------------------------------------------------
(* rotate_canvas: the expressions of the loop body *)

\* seeded fault: the inner loop runs over every bit of the row
XLimitWholeRow == stride * 8

XLimit == CANVAS_SIZE

YLimit == CANVAS_SIZE

SrcByte(px, py) == py * stride + (px \div 8)

\* seeded fault: the source read LSB first
SrcBitLsbFirst(px) == px % 8

SrcBit(px) == 7 - (px % 8)

\* seeded fault: the pixel read from the canvas buffer itself
ReadInPlace(i) == ByteAt(cbuf, i)

ReadSource(i) == ByteAt(src_tmp, i)

\* seeded fault: the edge offset off by one
NewXOffByOne(py) == CANVAS_SIZE - py

NewX(py) == CANVAS_SIZE - 1 - py

NewY(px) == px

DstByte(nx, ny) == ny * stride + (nx \div 8)

DstBit(nx) == 7 - (nx % 8)

\* seeded fault: the destination byte assigned, not or-ed
WriteBitAssign(buf, i, k) == [buf EXCEPT ![i + 1] = OrBitAssignOnly(buf[i + 1], k)]

WriteBit(buf, i, k) == [buf EXCEPT ![i + 1] = OrBit(buf[i + 1], k)]

Memset(v) == [j \in 1 .. BufLen |-> v]

ClearFill == IF inverted THEN 0 ELSE 255

----------------------------------------------------------------------------
(* draw_battery: rectangles (lv_area_t {x1, y1, x2, y2}, both corners       *)
(* inclusive) and the palette index each colour is stored as               *)

LVGL_BACKGROUND == 0

LVGL_FOREGROUND == 1

\* seeded fault: the frame one row short
FrameRectShort == [x1 |-> 0, y1 |-> 2, x2 |-> 29, y2 |-> 12]

FrameRect == [x1 |-> 0, y1 |-> 2, x2 |-> 29, y2 |-> 13]

InnerRect == [x1 |-> 1, y1 |-> 3, x2 |-> 27, y2 |-> 12]

\* seeded fault: the fill without the rounding bias
FillRectNoBias(b) == [x1 |-> 2, y1 |-> 4, x2 |-> 2 + (b \div 4), y2 |-> 11]

FillRect(b) == [x1 |-> 2, y1 |-> 4, x2 |-> 2 + ((b + 2) \div 4), y2 |-> 11]

NubRect == [x1 |-> 30, y1 |-> 5, x2 |-> 32, y2 |-> 10]

NubHoleRect == [x1 |-> 31, y1 |-> 6, x2 |-> 31, y2 |-> 9]

\* bolt.header.w, bolt.header.h and the glyph's opaque pixels: the image is
\* declared here (LV_IMAGE_DECLARE) and defined elsewhere
BoltW == 11

BoltH == 18

BoltArea == [x1 |-> 9, y1 |-> -1, x2 |-> 9 + BoltW - 1, y2 |-> -1 + BoltH - 1]

BoltOpaque(dx, dy) == (dx + dy \div 2) \in (BoltW - 4) .. (BoltW - 2)

InRect(r, px, py) == px >= r.x1 /\ px <= r.x2 /\ py >= r.y1 /\ py <= r.y2

\* the byte of buf at index i after every canvas pixel of it inside r (for a
\* glyph: every opaque pixel of the glyph placed at r) is stored as `colour`
PaintByte(buf, i, colour, r, glyph) ==
    LET row == i \div stride
        col(k) == (i % stride) * 8 + (7 - k)
        hit(k) == /\ col(k) < CANVAS_SIZE
                  /\ InRect(r, col(k), row)
                  /\ glyph => BoltOpaque(col(k) - r.x1, row - r.y1)
        b(k) == IF hit(k) THEN colour ELSE Bit(ByteAt(buf, i), k)
    IN  b(0) + 2 * b(1) + 4 * b(2) + 8 * b(3) + 16 * b(4) + 32 * b(5)
        + 64 * b(6) + 128 * b(7)

\* the bytes of buf that hold pixels of the rows and columns of r
Touches(i, r) ==
    /\ i \div stride >= r.y1 /\ i \div stride <= r.y2
    /\ (i % stride) * 8 <= r.x2 /\ (i % stride) * 8 + 7 >= r.x1

\* lv_draw_rect on the canvas layer: the area clipped to the canvas is filled
lv_draw_rect(buf, colour, r) ==
    [j \in 1 .. Len(buf) |->
        IF Touches(j - 1, r) THEN PaintByte(buf, j - 1, colour, r, FALSE)
        ELSE buf[j]]

\* lv_draw_image of the bolt at BoltArea
lv_draw_image(buf) ==
    [j \in 1 .. Len(buf) |->
        IF Touches(j - 1, BoltArea)
        THEN PaintByte(buf, j - 1, LVGL_FOREGROUND, BoltArea, TRUE)
        ELSE buf[j]]

----------------------------------------------------------------------------
(* Initial states *)

ZeroRect == [x1 |-> 0, y1 |-> 0, x2 |-> 0, y2 |-> 0]

ZeroLoc == [src_byte |-> 0, src_bit |-> 0, val |-> 0, new_x |-> 0, new_y |-> 0,
            dst_byte |-> 0, dst_bit |-> 0]

\* the packed buffer of an n x n canvas with row stride st whose foreground
\* pixels are S and whose padding bits all hold pad
Pack(n, st, S, pad) ==
    [j \in 1 .. st * n |->
        LET i == j - 1
            row == i \div st
            col(k) == (i % st) * 8 + (7 - k)
            b(k) == IF col(k) < n THEN (IF <<col(k), row>> \in S THEN 1 ELSE 0)
                    ELSE pad
        IN  b(0) + 2 * b(1) + 4 * b(2) + 8 * b(3) + 16 * b(4) + 32 * b(5)
            + 64 * b(6) + 128 * b(7)]

\* the coordinates the input bitmaps of the exhaustive runs draw on: the first
\* and the last two columns and rows (for 9: both sides of the byte boundary)
Marks(n) == {0, n - 2, n - 1}

Inputs(n) ==
    {S \in SUBSET (Marks(n) \X Marks(n)) : Cardinality(S) <= MaxSet}
        \cup {(0 .. n - 1) \X (0 .. n - 1)}

\* the configurations whose buffers the static scratch array can hold
Configs(sizes) == {c \in sizes \X Aligns : Stride(c[1], c[2]) <= c[1]}

InitCommon ==
    /\ inverted \in BOOLEAN
    /\ src_tmp = [j \in 1 .. BufLen |-> 0]
    /\ x = 0 /\ y = 0
    /\ loc = ZeroLoc
    /\ rect = ZeroRect
    /\ calls = 0
    /\ orig = cbuf
    /\ atCall = cbuf
    /\ inval = 0
    /\ oob = FALSE

\* the rotator alone: the canvas holds what earlier drawing left in it
Init ==
    /\ \E c \in Configs(Sizes) : CANVAS_SIZE = c[1] /\ align = c[2]
    /\ \E S \in Inputs(CANVAS_SIZE), pad \in {0, 1} :
           cbuf = Pack(CANVAS_SIZE, stride, S, pad)
    /\ pc = "ready"
    /\ battery = 0 /\ charging = FALSE
    /\ remaining = MaxCalls
    /\ InitCommon

\* draw_battery on a blank 68 x 68 canvas, every battery level
InitDraw ==
    /\ CANVAS_SIZE = NICE_VIEW_CANVAS_SIZE
    /\ align \in Aligns
    /\ cbuf = Pack(CANVAS_SIZE, stride, {}, 0)
    /\ pc = "frame"
    /\ battery \in 0 .. 100 /\ charging \in BOOLEAN
    /\ remaining = 0
    /\ InitCommon

StatusLevels == {0, 50, 100}

\* one rendering pass: draw_battery on a blank 68 x 68 canvas, then one
\* rotate_canvas
InitStatus ==
    /\ CANVAS_SIZE = NICE_VIEW_CANVAS_SIZE
    /\ align \in Aligns
    /\ cbuf = Pack(CANVAS_SIZE, stride, {}, 0)
    /\ pc = "frame"
    /\ battery \in StatusLevels /\ charging \in BOOLEAN
    /\ remaining = 1
    /\ InitCommon

----------------------------------------------------------------------------
(* draw_battery, one action per statement *)

config == <<CANVAS_SIZE, align, inverted>>

history == <<calls, orig, atCall, inval, oob>>

Draw(at, r, colour, next) ==
    /\ pc = at
    /\ rect' = r
    /\ cbuf' = lv_draw_rect(cbuf, colour, r)
    /\ orig' = cbuf'
    /\ pc' = next
    /\ UNCHANGED <<config, src_tmp, x, y, loc, battery, charging, remaining,
                   calls, atCall, inval, oob>>

DrawFrame == Draw("frame", FrameRect, LVGL_FOREGROUND, "inner")

DrawInner == Draw("inner", InnerRect, LVGL_BACKGROUND, "fill")

DrawFill == Draw("fill", FillRect(battery), LVGL_FOREGROUND, "nub")

DrawNub == Draw("nub", NubRect, LVGL_FOREGROUND, "nubhole")

DrawNubHole == Draw("nubhole", NubHoleRect, LVGL_BACKGROUND, "bolt")

DrawBolt ==
    /\ pc = "bolt"
    /\ cbuf' = IF charging THEN lv_draw_image(cbuf) ELSE cbuf
    /\ orig' = cbuf'
    /\ pc' = "ready"
    /\ UNCHANGED <<config, src_tmp, x, y, loc, battery, charging, rect,
                   remaining, calls, atCall, inval, oob>>

----------------------------------------------------------------------------
(* rotate_canvas, one action per statement and per loop iteration *)

\* entry: src_buf, dst_buf and stride are set up (dst_buf is zeroed and never
\* used again)
RotateCall ==
    /\ pc = "ready"
    /\ remaining > 0
    /\ remaining' = remaining - 1
    /\ calls' = calls + 1
    /\ atCall' = cbuf
    /\ inval' = 0
    /\ pc' = "memcpy"
    /\ UNCHANGED <<config, cbuf, src_tmp, x, y, loc, battery, charging, rect,
                   orig, oob>>

\* memcpy(src_tmp, cbuf, stride * CANVAS_SIZE); copying more than the array
\* holds is undefined behaviour, recorded in oob
CopyToTmp ==
    /\ pc = "memcpy"
    /\ src_tmp' = [j \in 1 .. BufLen |-> cbuf[j]]
    /\ oob' = (oob \/ BufLen > SrcTmpCap)
    /\ pc' = "clear1"
    /\ UNCHANGED <<config, cbuf, x, y, loc, battery, charging, rect, remaining,
                   calls, orig, atCall, inval>>

\* memset(cbuf, IS_ENABLED(CONFIG_NICE_VIEW_WIDGET_INVERTED) ? 0x00 : 0xFF, ...)
Clear1 ==
    /\ pc = "clear1"
    /\ cbuf' = Memset(ClearFill)
    /\ pc' = "clear2"
    /\ UNCHANGED <<config, src_tmp, x, y, loc, battery, charging, rect,
                   remaining, history>>

\* seeded fault: the second memset missing
Clear2Skipped ==
    /\ pc = "clear2"
    /\ x' = 0 /\ y' = 0
    /\ pc' = IF YLimit > 0 /\ XLimit > 0 THEN "loop" ELSE "invalidate"
    /\ UNCHANGED <<config, cbuf, src_tmp, loc, battery, charging, rect,
                   remaining, history>>

\* memset(cbuf, 0, ...), then the loops start at y = 0, x = 0
Clear2 ==
    /\ pc = "clear2"
    /\ cbuf' = Memset(0)
    /\ x' = 0 /\ y' = 0
    /\ pc' = IF YLimit > 0 /\ XLimit > 0 THEN "loop" ELSE "invalidate"
    /\ UNCHANGED <<config, src_tmp, loc, battery, charging, rect, remaining,
                   history>>

\* one iteration of the inner loop, then x++ (and y++ at the end of a row);
\* a read outside src_tmp yields any value and a write outside cbuf is
\* dropped, both recorded in oob (undefined behaviour)
RotatePixel ==
    /\ pc = "loop"
    /\ LET src_byte == SrcByte(x, y)
           src_bit == SrcBit(x)
           inSrc == InBuf(src_tmp, src_byte)
       IN  \E val \in (IF inSrc THEN {Bit(ReadSource(src_byte), src_bit)} ELSE {0, 1}) :
             IF val = 1
             THEN LET new_x == NewX(y)
                      new_y == NewY(x)
                      dst_byte == DstByte(new_x, new_y)
                      dst_bit == DstBit(new_x)
                      inDst == InBuf(cbuf, dst_byte)
                  IN  /\ loc' = [src_byte |-> src_byte, src_bit |-> src_bit,
                                 val |-> val, new_x |-> new_x, new_y |-> new_y,
                                 dst_byte |-> dst_byte, dst_bit |-> dst_bit]
                      /\ cbuf' = IF inDst THEN WriteBit(cbuf, dst_byte, dst_bit)
                                 ELSE cbuf
                      /\ oob' = (oob \/ ~inSrc \/ ~inDst)
             ELSE /\ loc' = [loc EXCEPT !.src_byte = src_byte,
                                        !.src_bit = src_bit, !.val = val]
                  /\ cbuf' = cbuf
                  /\ oob' = (oob \/ ~inSrc)
    /\ IF x + 1 < XLimit
       THEN x' = x + 1 /\ y' = y /\ pc' = "loop"
       ELSE /\ x' = 0
            /\ y' = y + 1
            /\ pc' = IF y + 1 < YLimit THEN "loop" ELSE "invalidate"
    /\ UNCHANGED <<config, src_tmp, battery, charging, rect, remaining, calls,
                   orig, atCall, inval>>

\* seeded fault: the call returns without invalidating the canvas
InvalidateSkipped ==
    /\ pc = "invalidate"
    /\ pc' = "ready"
    /\ UNCHANGED <<config, cbuf, src_tmp, x, y, loc, battery, charging, rect,
                   remaining, calls, orig, atCall, inval, oob>>

\* lv_obj_invalidate(canvas), the last statement: the call returns
Invalidate ==
    /\ pc = "invalidate"
    /\ inval' = inval + 1
    /\ pc' = "ready"
    /\ UNCHANGED <<config, cbuf, src_tmp, x, y, loc, battery, charging, rect,
                   remaining, calls, orig, atCall, oob>>

----------------------------------------------------------------------------
(* Specifications *)

NextRotate ==
    \/ RotateCall
    \/ CopyToTmp
    \/ Clear1
    \/ Clear2
    \/ RotatePixel
    \/ Invalidate

NextDraw ==
    \/ DrawFrame
    \/ DrawInner
    \/ DrawFill
    \/ DrawNub
    \/ DrawNubHole
    \/ DrawBolt

Next == NextRotate

NextStatus == NextDraw \/ NextRotate

\* rotate_canvas called MaxCalls times in succession on every input bitmap
Spec == Init /\ [][Next]_vars

\* draw_battery alone, at every battery level
SpecDraw == InitDraw /\ [][NextDraw]_vars

\* draw_battery followed by one rotate_canvas, on the 68 x 68 canvas
SpecStatus == InitStatus /\ [][NextStatus]_vars

----------------------------------------------------------------------------
(* Properties *)

\* the pixel (col, row) of a packed buffer, MSB first
PixelAt(buf, col, row) ==
    Bit(ByteAt(buf, row * stride + (col \div 8)), 7 - (col % 8))

Pixels(buf) == {p \in Coords : PixelAt(buf, p[1], p[2]) = 1}

Rotated(S) == {<<CANVAS_SIZE - 1 - p[2], p[1]>> : p \in S}

PaddingClear(buf) ==
    \A i \in 0 .. Len(buf) - 1, k \in 0 .. 7 :
        (i % stride) * 8 + (7 - k) >= CANVAS_SIZE => Bit(ByteAt(buf, i), k) = 0

Returned == pc = "ready" /\ calls >= 1

InCall == pc \in {"memcpy", "clear1", "clear2", "loop", "invalidate"}

\* at least one iteration of the current call's loop has run
Iterated == (pc = "loop" /\ (x > 0 \/ y > 0)) \/ pc = "invalidate"

RectPixels(r) == {p \in Coords : InRect(r, p[1], p[2])}

AreaWidth(r) == r.x2 - r.x1 + 1

\* C1: when rotate_canvas has returned, the pixel at (N-1-y, x) equals the
\* pixel (x, y) of the buffer at call time, for every x, y in [0, N); a lone
\* pixel at (0,0) ends at (N-1,0) and a lone pixel at (N-1,0) at (N-1,N-1).
C1_RotatesClockwise ==
    Returned =>
        /\ \A p \in Coords :
               PixelAt(cbuf, CANVAS_SIZE - 1 - p[2], p[1]) = PixelAt(atCall, p[1], p[2])
        /\ Pixels(atCall) = {<<0, 0>>} => Pixels(cbuf) = {<<CANVAS_SIZE - 1, 0>>}
        /\ Pixels(atCall) = {<<CANVAS_SIZE - 1, 0>>}
               => Pixels(cbuf) = {<<CANVAS_SIZE - 1, CANVAS_SIZE - 1>>}

C1_Witness ==
    /\ Returned
    /\ CANVAS_SIZE = 9
    /\ Pixels(atCall) = {<<8, 0>>}
    /\ Pixels(cbuf) = {<<8, 8>>}

\* C2: after four rotate_canvas calls in succession the buffer holds the
\* bitmap it held before the first: every pixel in [0,N) x [0,N) is as it was.
C2_FourRotationsRestore ==
    (pc = "ready" /\ calls = 4) =>
        /\ \A p \in Coords : PixelAt(cbuf, p[1], p[2]) = PixelAt(orig, p[1], p[2])
        /\ Pixels(cbuf) = Pixels(orig)

C2_Witness ==
    /\ pc = "ready" /\ calls = 4
    /\ CANVAS_SIZE = 9
    /\ Cardinality(Pixels(orig)) = 2
    /\ Pixels(cbuf) = Pixels(orig)
    /\ Pixels(atCall) # Pixels(orig)

\* C3: one rotate_canvas call leaves as many foreground pixels as there were,
\* and the coordinate transform (x, y) -> (new_x, new_y) is a bijection on
\* [0,N) x [0,N).
C3_PreservesCount ==
    Returned =>
        LET image == {<<NewX(p[2]), NewY(p[1])>> : p \in Coords}
        IN  /\ Cardinality(Pixels(cbuf)) = Cardinality(Pixels(atCall))
            /\ image = Coords
            /\ Cardinality(image) = Cardinality(Coords)

C3_Witness ==
    /\ Returned
    /\ Cardinality(Pixels(atCall)) = 3
    /\ Cardinality(Pixels(cbuf)) = 3
    /\ Pixels(cbuf) # Pixels(atCall)

\* C4: with stride*8 > N, every bit the loop reads is at a column < N, the
\* result is the packed rotation of the pixels alone (whatever the padding
\* bits of the input held), and every padding bit of the result is 0.
C4_PaddingNeverSource ==
    stride * 8 > CANVAS_SIZE =>
        /\ Iterated =>
               (loc.src_byte % stride) * 8 + (7 - loc.src_bit) < CANVAS_SIZE
        /\ Returned =>
               /\ cbuf = Pack(CANVAS_SIZE, stride, Rotated(Pixels(atCall)), 0)
               /\ PaddingClear(cbuf)

C4_Witness ==
    /\ Returned /\ calls = 1
    /\ stride * 8 > CANVAS_SIZE
    /\ ~PaddingClear(atCall)
    /\ Pixels(atCall) # {}
    /\ PaddingClear(cbuf)

\* C5: on the 68 x 68 canvas with 1- or 4-byte stride alignment no access is
\* out of bounds: every byte index of a read or a write is in [0, stride*N)
\* and the stride*N bytes copied fit the N*N bytes of the scratch buffer.
C5_InBounds ==
    /\ ~oob
    /\ CANVAS_SIZE = NICE_VIEW_CANVAS_SIZE
    /\ pc = "memcpy" =>
           /\ BufLen <= CANVAS_SIZE * CANVAS_SIZE
           /\ \A p \in Coords :
                  /\ SrcByte(p[1], p[2]) \in 0 .. BufLen - 1
                  /\ DstByte(NewX(p[2]), NewY(p[1])) \in 0 .. BufLen - 1
    /\ Iterated =>
           /\ loc.src_byte \in 0 .. BufLen - 1
           /\ loc.val = 1 => loc.dst_byte \in 0 .. BufLen - 1

C5_Witness ==
    /\ pc = "loop"
    /\ align = 4
    /\ loc.val = 1
    /\ loc.src_byte = 2 * stride
    /\ loc.dst_byte = 8
    /\ ByteAt(cbuf, 8) = 64
    /\ ~oob

\* C6: a rotate_canvas call invalidates the canvas exactly once, as its last
\* step: not before the loops have finished, the buffer is not changed by or
\* after the invalidation, and the call returns with that step.
C6_InvalidateOnceAtEnd ==
    /\ [](InCall => inval = 0)
    /\ [](pc = "invalidate" => (x = 0 /\ y = CANVAS_SIZE))
    /\ [](Returned => inval = 1)
    /\ [][pc = "invalidate" => (pc' = "ready" /\ inval' = 1 /\ cbuf' = cbuf)]_vars
    /\ [][cbuf' # cbuf => (inval' = 0 /\ pc \in {"clear1", "clear2", "loop"})]_vars

C6_Witness ==
    /\ Returned
    /\ inval = 1
    /\ remaining > 0
    /\ cbuf # atCall

\* C7 as stated: the fill rectangle is 2 + (battery + 2) / 4 pixels wide.
C7_WidthAsStated ==
    pc = "nub" => AreaWidth(rect) = 2 + ((battery + 2) \div 4)

\* C7 (amended): the fill rectangle spans the columns 2 .. 2 + (battery+2)/4,
\* both inclusive, so it is 1 + (battery + 2) / 4 pixels wide; those are the
\* foreground pixels of its rows inside the inner rectangle.
C7_FillSpan ==
    pc = "nub" =>
        /\ rect.x1 = 2
        /\ rect.x2 = 2 + ((battery + 2) \div 4)
        /\ AreaWidth(rect) = 1 + ((battery + 2) \div 4)
        /\ \A row \in 4 .. 11 :
               {col \in 1 .. 27 : PixelAt(cbuf, col, row) = 1}
                   = 2 .. (2 + ((battery + 2) \div 4))

C7_Witness ==
    /\ pc = "nub"
    /\ battery = 100
    /\ AreaWidth(rect) = 26
    /\ PixelAt(cbuf, 27, 4) = 1

\* C8: at 50 %, not charging, on the blank 68 x 68 canvas draw_battery leaves
\* exactly the frame (0,2)-(29,13) minus the inner rectangle, plus the fill
\* and the terminal nub; after one rotate_canvas each of those pixels (x, y)
\* is at (N-1-y, x) and no other pixel is set.
C8_Glyph50 ==
    (RectPixels([x1 |-> 0, y1 |-> 2, x2 |-> 29, y2 |-> 13])
        \ RectPixels([x1 |-> 1, y1 |-> 3, x2 |-> 27, y2 |-> 12]))
    \cup RectPixels([x1 |-> 2, y1 |-> 4, x2 |-> 15, y2 |-> 11])
    \cup (RectPixels([x1 |-> 30, y1 |-> 5, x2 |-> 32, y2 |-> 10])
        \ RectPixels([x1 |-> 31, y1 |-> 6, x2 |-> 31, y2 |-> 9]))

C8_BatteryGlyphRotated ==
    (pc = "ready" /\ battery = 50 /\ ~charging) =>
        /\ calls = 0 => Pixels(cbuf) = C8_Glyph50
        /\ calls = 1 =>
               Pixels(cbuf) = {<<CANVAS_SIZE - 1 - p[2], p[1]>> : p \in C8_Glyph50}

C8_Witness ==
    /\ pc = "ready" /\ calls = 1
    /\ CANVAS_SIZE = 68
    /\ battery = 50 /\ ~charging
    /\ PixelAt(atCall, 0, 2) = 1 /\ PixelAt(atCall, 29, 13) = 1
    /\ PixelAt(cbuf, 65, 0) = 1 /\ PixelAt(cbuf, 54, 29) = 1
    /\ PixelAt(cbuf, 0, 2) = 0

\* C9: the buffer is copied to the scratch buffer before it is changed; from
\* then to the end of the call the scratch buffer equals the buffer at call
\* time, and every pixel the loop reads is that buffer's.
C9_ReadsFromScratchCopy ==
    /\ pc = "memcpy" => cbuf = atCall
    /\ (InCall /\ pc # "memcpy") => src_tmp = atCall
    /\ Iterated => loc.val = Bit(ByteAt(atCall, loc.src_byte), loc.src_bit)

C9_Witness ==
    /\ pc = "loop"
    /\ (x > 0 \/ y > 0)
    /\ loc.val = 1
    /\ src_tmp = atCall
    /\ cbuf # Memset(0)
    /\ cbuf # atCall

\* C10: when the pixel loop starts every byte of the destination is 0, with
\* the inverted-colour configuration or without it; a pixel that was
\* background at call time is background at its destination.
C10_DestinationCleared ==
    /\ (pc = "loop" /\ x = 0 /\ y = 0) => \A i \in 0 .. BufLen - 1 : ByteAt(cbuf, i) = 0
    /\ Returned =>
           /\ \A p \in Coords :
                  PixelAt(atCall, p[1], p[2]) = 0
                      => PixelAt(cbuf, CANVAS_SIZE - 1 - p[2], p[1]) = 0
           /\ Pixels(atCall) = {} => cbuf = Memset(0)

C10_Witness ==
    /\ pc = "loop" /\ x = 0 /\ y = 0
    /\ ~inverted
    /\ atCall # Memset(0)
    /\ cbuf = Memset(0)

====
